---- MODULE Spec2Model ----
(***************************************************************************)
(* Queue management of the clinical-laboratory application.                *)
(*                                                                         *)
(* Part I  : the Tickets and QueueState tables (v1/backend/scripts.sql)    *)
(*           and the queue endpoints that QueueService, WorkstationService *)
(*           and TicketService call.  The endpoint handlers (FastAPI) are  *)
(*           modelled from the specification (section 4: advance = mark    *)
(*           current ticket completed, select next Waiting ticket ordered  *)
(*           by creation time, update QueueState; section 5: default       *)
(*           database transactions, no custom locking).  A handler is a    *)
(*           transaction that first reads (Begin) and later writes         *)
(*           (Commit) what it computed from its reads.                     *)
(* Part II : the Angular HTTP layer: AuthInterceptor, and the error        *)
(*           handlers of QueueService and AuthService.                     *)
(***************************************************************************)
EXTENDS Integers, Sequences, FiniteSets, TLC

\* ------------------------------------------------------------------------
\* Bounds of the model
\* ------------------------------------------------------------------------
MaxTickets == 3
MaxRows == 6
MaxRequests == 4
MaxCalls == 3

\* ------------------------------------------------------------------------
\* Part I.  Schema
\* ------------------------------------------------------------------------
VARIABLES
    tickets,   \* dbo.Tickets: sequence of rows, in order of CreatedAt
    rows,      \* dbo.QueueState: sequence of rows, index = identity Id
    req,       \* per workstation: the request it has in flight, or NoReq
    issued,    \* number of interleaved requests sent so far
    advanced   \* the queue that the request served last advanced, NoQueue
               \* when it was not an advance (history, serial execution)

VARIABLES
    session,              \* AuthService.authState
    minted,               \* number of access tokens the server has issued
    isRefreshing,         \* AuthInterceptor.isRefreshing
    refreshTokenSubject,  \* value held by AuthInterceptor.refreshTokenSubject
    calls,                \* per slot: the service call a component made last
    made,                 \* number of service calls made so far
    storage,              \* localStorage: the five auth entries
    refreshTokenTimer,    \* AuthService.refreshTokenTimer
    boot,                 \* the refresh that initializeAuthState started is in flight
    route                 \* the route the router shows

dbVars == <<tickets, rows, req, issued, advanced>>
httpVars ==
    <<session, minted, isRefreshing, refreshTokenSubject, calls, made, storage,
      refreshTokenTimer, boot, route>>

\* Workstations (browser sessions) that issue requests
Workstations == {1, 2}

\* dbo.ServiceTypes.Id values in use
Services == {1, 2}

\* dbo.Stations.Id values in use
Stations == {1}

\* NULL of a StationId column
NoStation == 0

\* NULL of a CurrentTicketId / NextTicketId column
NoTicket == 0

\* the Id (default newid()) of the ticket a transaction inserts, before commit
NewTicket == -1

\* Stations.ServiceTypeId: the service a station attends
ServiceOfStation(st) == 1

\* Tickets.Status check constraint
TicketStatuses == {"Waiting", "Called", "InProgress", "Completed", "Cancelled", "NoShow"}

\* Position of a status in the order Waiting -> Called -> InProgress -> final
StatusRank(status) ==
    CASE status = "Waiting" -> 0
      [] status = "Called" -> 1
      [] status = "InProgress" -> 2
      [] OTHER -> 3

\* no (ServiceTypeId, StationId) pair
NoQueue == <<0, 0>>

\* (ServiceTypeId, StationId) pairs a QueueState row can describe
QueueKeys ==
    {<<s, NoStation>> : s \in Services}
        \cup {<<ServiceOfStation(st), st>> : st \in Stations}

MinOf(S) == CHOOSE x \in S : \A y \in S : x <= y

MaxOf(S) == CHOOSE x \in S : \A y \in S : x >= y

\* ------------------------------------------------------------------------
\* Values derived from the Tickets table
\* ------------------------------------------------------------------------
\* Waiting tickets of a service
WaitingOf(T, s) ==
    {i \in DOMAIN T : T[i].svc = s /\ T[i].status = "Waiting"}

\* the Waiting ticket with the earliest CreatedAt among W, NULL when none
\* selection of the ticket created last instead of first
LatestOf(W) == IF W = {} THEN NoTicket ELSE MaxOf(W)

EarliestOf(W) == IF W = {} THEN NoTicket ELSE MinOf(W)

\* the ticket being attended at (service, station), NULL when none
DerivedCurrent(T, s, st) ==
    LET A == {i \in DOMAIN T : /\ T[i].svc = s
                               /\ T[i].st = st
                               /\ T[i].status \in {"Called", "InProgress"}}
    IN  IF A = {} THEN NoTicket ELSE MaxOf(A)

\* the QueueState row derived from the tickets for (service, station)
DerivedRow(T, s, st) ==
    [svc |-> s, st |-> st,
     cur |-> DerivedCurrent(T, s, st),
     next |-> EarliestOf(WaitingOf(T, s)),
     len |-> Cardinality(WaitingOf(T, s))]

\* first QueueState row of (service, station); 0 when there is none
FindRow(R, s, st) ==
    LET M == {i \in DOMAIN R : R[i].svc = s /\ R[i].st = st}
    IN  IF M = {} THEN 0 ELSE MinOf(M)

\* ------------------------------------------------------------------------
\* Write sets: what a transaction computed from its reads and will write
\*   ins : ServiceTypeId of the ticket to insert, 0 for none
\*   tw  : column writes to Tickets rows    [i, f, v]
\*   rw  : column writes to QueueState rows [i, f, v]
\*   ri  : QueueState rows to insert
\* ------------------------------------------------------------------------
EmptyWS == [ins |-> 0, tw |-> {}, rw |-> {}, ri |-> <<>>]

\* writes of NextTicketId and QueueLength to every row of a service
QueueWrites(R, s, next, len) ==
    UNION {{[i |-> i, f |-> "next", v |-> next], [i |-> i, f |-> "len", v |-> len]}
              : i \in {j \in DOMAIN R : R[j].svc = s}}

\* one table row after the column writes addressed to it
WriteRow(row, i, writes) ==
    [f \in DOMAIN row |->
        IF \E w \in writes : w.i = i /\ w.f = f
        THEN (CHOOSE w \in writes : w.i = i /\ w.f = f).v
        ELSE row[f]]

\* the Tickets table after a write set commits
CommitTickets(T, ws) ==
    LET U == [i \in DOMAIN T |-> WriteRow(T[i], i, ws.tw)]
    IN  IF ws.ins = 0 THEN U
        ELSE Append(U, [svc |-> ws.ins, st |-> NoStation, status |-> "Waiting"])

\* the QueueState table after a write set commits; newId is the Id the
\* inserted ticket received
CommitRows(R, ws, newId) ==
    LET Resolve(w) == IF w.v = NewTicket THEN [w EXCEPT !.v = newId] ELSE w
        rw == {Resolve(w) : w \in ws.rw}
    IN  [i \in DOMAIN R |-> WriteRow(R[i], i, rw)] \o ws.ri

\* ------------------------------------------------------------------------
\* Endpoint handlers: the write set each computes from the tables it reads
\* ------------------------------------------------------------------------
\* ticket creation that leaves the QueueState rows alone
CreateTicketWS_KeepsLength(T, R, s) ==
    [EmptyWS EXCEPT !.ins = s]

\* POST /tickets {ServiceTypeId}: a new Waiting ticket joins the queue
CreateTicketWS(T, R, s) ==
    LET W == WaitingOf(T, s)
    IN  [ins |-> s, tw |-> {}, ri |-> <<>>,
         rw |-> QueueWrites(R, s, IF W = {} THEN NewTicket ELSE MinOf(W),
                            Cardinality(W) + 1)]

\* an advance that takes one ticket off the queue length whether or not a
\* ticket was Waiting
AdvanceQueueWS_Decrements(T, R, s, st, markCompleted) ==
    LET r == FindRow(R, s, st)
        cur == R[r].cur
        W == WaitingOf(T, s)
        nxt == IF W = {} THEN NoTicket ELSE MinOf(W)
        rest == W \ {nxt}
    IN  IF r = 0 THEN EmptyWS
        ELSE [ins |-> 0, ri |-> <<>>,
              tw |-> (IF cur # NoTicket /\ markCompleted
                      THEN {[i |-> cur, f |-> "status", v |-> "Completed"]}
                      ELSE {})
                     \cup
                     (IF nxt # NoTicket
                      THEN {[i |-> nxt, f |-> "status", v |-> "Called"],
                            [i |-> nxt, f |-> "st", v |-> st]}
                      ELSE {}),
              rw |-> {[i |-> r, f |-> "cur", v |-> nxt]}
                     \cup QueueWrites(R, s, IF rest = {} THEN NoTicket ELSE MinOf(rest),
                                      Cardinality(W) - 1)]

\* POST /queue-states/advance {ServiceTypeId, StationId, MarkCompleted}
AdvanceQueueWS(T, R, s, st, markCompleted) ==
    LET r == FindRow(R, s, st)
        cur == R[r].cur
        W == WaitingOf(T, s)
        nxt == EarliestOf(W)
        rest == W \ {nxt}
    IN  IF r = 0 THEN EmptyWS
        ELSE IF cur = NoTicket /\ nxt = NoTicket THEN EmptyWS
        ELSE [ins |-> 0, ri |-> <<>>,
              tw |-> (IF cur # NoTicket /\ markCompleted
                      THEN {[i |-> cur, f |-> "status", v |-> "Completed"]}
                      ELSE {})
                     \cup
                     (IF nxt # NoTicket
                      THEN {[i |-> nxt, f |-> "status", v |-> "Called"],
                            [i |-> nxt, f |-> "st", v |-> st]}
                      ELSE {}),
              rw |-> {[i |-> r, f |-> "cur", v |-> nxt]}
                     \cup QueueWrites(R, s, EarliestOf(rest), Cardinality(rest))]

\* a reset that puts the current ticket back into the queue
ResetQueueWS_Requeues(T, R, s, st, cancelPending) ==
    LET r == FindRow(R, s, st)
        cur == R[r].cur
        W == WaitingOf(T, s) \cup (IF r # 0 /\ cur # NoTicket THEN {cur} ELSE {})
    IN  IF r = 0 THEN EmptyWS
        ELSE [ins |-> 0, ri |-> <<>>,
              tw |-> (IF cur # NoTicket
                      THEN {[i |-> cur, f |-> "status", v |-> "Waiting"]}
                      ELSE {}),
              rw |-> {[i |-> r, f |-> "cur", v |-> NoTicket]}
                     \cup QueueWrites(R, s, IF W = {} THEN NoTicket ELSE MinOf(W),
                                      Cardinality(W))]

\* POST /queue-states/reset {ServiceTypeId, StationId, Reason, CancelPendingTickets}
ResetQueueWS(T, R, s, st, cancelPending) ==
    LET r == FindRow(R, s, st)
        cur == R[r].cur
        W == WaitingOf(T, s)
        rest == IF cancelPending THEN {} ELSE W
    IN  IF r = 0 THEN EmptyWS
        ELSE [ins |-> 0, ri |-> <<>>,
              tw |-> (IF cur # NoTicket
                      THEN {[i |-> cur, f |-> "status", v |-> "Cancelled"]}
                      ELSE {})
                     \cup
                     (IF cancelPending
                      THEN {[i |-> t, f |-> "status", v |-> "Cancelled"] : t \in W}
                      ELSE {}),
              rw |-> {[i |-> r, f |-> "cur", v |-> NoTicket]}
                     \cup QueueWrites(R, s, EarliestOf(rest), Cardinality(rest))]

\* POST /stations/{id}/call-next: an idle station takes the next ticket
CallNextTicketWS(T, R, st) ==
    LET s == ServiceOfStation(st)
        r == FindRow(R, s, st)
    IN  IF r = 0 THEN EmptyWS
        ELSE IF R[r].cur # NoTicket THEN EmptyWS
        ELSE AdvanceQueueWS(T, R, s, st, FALSE)

\* a Called ticket starts being attended (Tickets.AttendedAt)
AttendTicketWS(T, R, t) ==
    IF T[t].status = "Called"
    THEN [EmptyWS EXCEPT !.tw = {[i |-> t, f |-> "status", v |-> "InProgress"]}]
    ELSE EmptyWS

\* a Waiting ticket is cancelled
CancelTicketWS(T, R, t) ==
    LET s == T[t].svc
        rest == WaitingOf(T, s) \ {t}
    IN  IF T[t].status = "Waiting"
        THEN [ins |-> 0, ri |-> <<>>,
              tw |-> {[i |-> t, f |-> "status", v |-> "Cancelled"]},
              rw |-> QueueWrites(R, s, EarliestOf(rest), Cardinality(rest))]
        ELSE EmptyWS

\* POST /admin/daily-cleanup {cancel_pending_tickets, reset_queue_states}
DailyCleanupWS(T, R, cancelPending, resetQueues) ==
    LET Rest(s) == IF cancelPending THEN {} ELSE WaitingOf(T, s)
        Curs == {R[i].cur : i \in DOMAIN R} \ {NoTicket}
    IN  [ins |-> 0, ri |-> <<>>,
         tw |-> (IF cancelPending
                 THEN {[i |-> t, f |-> "status", v |-> "Cancelled"]
                          : t \in {u \in DOMAIN T : T[u].status = "Waiting"}}
                 ELSE {})
                \cup
                (IF resetQueues
                 THEN {[i |-> t, f |-> "status", v |-> "Cancelled"] : t \in Curs}
                 ELSE {}),
         rw |-> (IF resetQueues
                 THEN {[i |-> i, f |-> "cur", v |-> NoTicket] : i \in DOMAIN R}
                 ELSE {})
                \cup
                UNION {QueueWrites(R, s, EarliestOf(Rest(s)), Cardinality(Rest(s)))
                          : s \in Services}]

\* writes that bring one QueueState row to the values derived from Tickets
RecomputeWrites(T, R, i) ==
    LET d == DerivedRow(T, R[i].svc, R[i].st)
    IN  {[i |-> i, f |-> "cur", v |-> d.cur],
         [i |-> i, f |-> "next", v |-> d.next],
         [i |-> i, f |-> "len", v |-> d.len]}

\* row creation that does not look for an existing row of the key
RowsForAll(T, R, K) ==
    LET RECURSIVE AsSeq(_)
        AsSeq(M) == IF M = {} THEN <<>>
                    ELSE LET k == CHOOSE x \in M :
                                     \A y \in M : x[1] < y[1]
                                         \/ (x[1] = y[1] /\ x[2] <= y[2])
                         IN  <<DerivedRow(T, k[1], k[2])>> \o AsSeq(M \ {k})
    IN  AsSeq(K)

\* the rows to create for the keys in K that have no QueueState row yet
MissingRows(T, R, K) ==
    LET Miss == {k \in K : FindRow(R, k[1], k[2]) = 0}
        RECURSIVE AsSeq(_)
        AsSeq(M) == IF M = {} THEN <<>>
                    ELSE LET k == CHOOSE x \in M :
                                     \A y \in M : x[1] < y[1]
                                         \/ (x[1] = y[1] /\ x[2] <= y[2])
                         IN  <<DerivedRow(T, k[1], k[2])>> \o AsSeq(M \ {k})
    IN  AsSeq(Miss)

\* POST /queue-states/initialize: create the rows of the services that
\* have tickets ("Initialize queue states from existing tickets")
InitializeQueuesWS(T, R) ==
    [EmptyWS EXCEPT
        !.ri = MissingRows(T, R,
                   {k \in QueueKeys : \E i \in DOMAIN T : T[i].svc = k[1]})]

\* POST /queue-states/initialize-all: create the missing rows
\* (queues_created) and recompute the existing ones (queues_updated)
InitializeAllQueuesWS(T, R) ==
    [ins |-> 0, tw |-> {},
     rw |-> UNION {RecomputeWrites(T, R, i) : i \in DOMAIN R},
     ri |-> MissingRows(T, R, QueueKeys)]

\* POST /queue-states/refresh-all: recompute every existing row
RefreshAllQueuesWS(T, R) ==
    [EmptyWS EXCEPT !.rw = UNION {RecomputeWrites(T, R, i) : i \in DOMAIN R}]

\* GET /queue-states/consistency-check?fix_issues=: with fix_issues the
\* rows that differ from the derived values are recomputed
CheckConsistencyWS(T, R, fix) ==
    IF fix
    THEN [EmptyWS EXCEPT
             !.rw = UNION {RecomputeWrites(T, R, i)
                             : i \in {j \in DOMAIN R :
                                         R[j] # DerivedRow(T, R[j].svc, R[j].st)}}]
    ELSE EmptyWS

\* ------------------------------------------------------------------------
\* Requests the frontend services build
\* ------------------------------------------------------------------------
\* an advance request that does not ask to complete the current ticket
AdvanceQueueRequest_KeepCurrent(serviceTypeId, stationId) ==
    [ServiceTypeId |-> serviceTypeId, StationId |-> stationId, MarkCompleted |-> FALSE]

\* QueueService.advanceQueue: the AdvanceQueueRequest body
AdvanceQueueRequest(serviceTypeId, stationId) ==
    [ServiceTypeId |-> serviceTypeId, StationId |-> stationId, MarkCompleted |-> TRUE]

\* QueueService.resetQueue: the ResetQueueRequest body
ResetQueueRequest(serviceTypeId, stationId) ==
    [ServiceTypeId |-> serviceTypeId, StationId |-> stationId,
     CancelPendingTickets |-> FALSE]

\* values an optional boolean option can take in dailyCleanup(options)
OptionValues == {"true", "false", "undefined"}

\* QueueService.dailyCleanup: option ?? true
DailyCleanupRequest(options) ==
    [cancel_pending_tickets |->
        IF options.cancelPendingTickets = "undefined" THEN TRUE
        ELSE options.cancelPendingTickets = "true",
     reset_queue_states |->
        IF options.resetQueueStates = "undefined" THEN TRUE
        ELSE options.resetQueueStates = "true"]

\* ------------------------------------------------------------------------
\* Transactions
\* ------------------------------------------------------------------------
NoReq == [op |-> "none"]

InFlight == {w \in Workstations : req[w] # NoReq}

\* tickets and QueueState rows that in-flight transactions will insert
RECURSIVE PendingTickets(_)
PendingTickets(S) ==
    IF S = {} THEN 0
    ELSE LET w == CHOOSE x \in S : TRUE
         IN  (IF req[w].ws.ins # 0 THEN 1 ELSE 0) + PendingTickets(S \ {w})

RECURSIVE PendingRows(_)
PendingRows(S) ==
    IF S = {} THEN 0
    ELSE LET w == CHOOSE x \in S : TRUE
         IN  Len(req[w].ws.ri) + PendingRows(S \ {w})

\* workstation w sends a request; the handler reads the tables and holds
\* the write set ws until it commits
Begin(w, op, s, st, ws) ==
    /\ req[w] = NoReq
    /\ issued < MaxRequests
    /\ Len(rows) + PendingRows(InFlight) + Len(ws.ri) <= MaxRows
    /\ req' = [req EXCEPT ![w] = [op |-> op, s |-> s, st |-> st, ws |-> ws]]
    /\ issued' = issued + 1
    /\ UNCHANGED <<tickets, rows, advanced, httpVars>>

\* the transaction of workstation w commits: its writes reach the tables
Commit(w) ==
    /\ req[w] # NoReq
    /\ tickets' = CommitTickets(tickets, req[w].ws)
    /\ rows' = CommitRows(rows, req[w].ws, Len(tickets) + 1)
    /\ req' = [req EXCEPT ![w] = NoReq]
    /\ UNCHANGED <<issued, advanced, httpVars>>

\* a request served with no other request in flight: it reads and
\* commits in one step
Serve(w, op, s, st, ws) ==
    /\ InFlight = {}
    /\ Len(rows) + Len(ws.ri) <= MaxRows
    /\ tickets' = CommitTickets(tickets, ws)
    /\ rows' = CommitRows(rows, ws, Len(tickets) + 1)
    /\ advanced' = IF op = "advance" THEN <<s, st>> ELSE NoQueue
    /\ UNCHANGED <<req, issued, httpVars>>

\* ------------------------------------------------------------------------
\* Operations, served one at a time (serial) or interleaved
\* ------------------------------------------------------------------------
Do(serial, w, op, s, st, ws) ==
    IF serial THEN Serve(w, op, s, st, ws) ELSE Begin(w, op, s, st, ws)

CreateTicket(w, serial) ==
    \E s \in Services :
        /\ Len(tickets) + PendingTickets(InFlight) < MaxTickets
        /\ Do(serial, w, "create", s, NoStation, CreateTicketWS(tickets, rows, s))

AdvanceQueue(w, serial) ==
    \E k \in QueueKeys :
        LET r == AdvanceQueueRequest(k[1], k[2])
        IN  Do(serial, w, "advance", k[1], k[2],
               AdvanceQueueWS(tickets, rows, r.ServiceTypeId, r.StationId,
                              r.MarkCompleted))

ResetQueue(w, serial) ==
    \E k \in QueueKeys :
        LET r == ResetQueueRequest(k[1], k[2])
        IN  Do(serial, w, "reset", k[1], k[2],
               ResetQueueWS(tickets, rows, r.ServiceTypeId, r.StationId,
                            r.CancelPendingTickets))

CallNextTicket(w, serial) ==
    \E st \in Stations :
        Do(serial, w, "call", ServiceOfStation(st), st, CallNextTicketWS(tickets, rows, st))

AttendTicket(w, serial) ==
    \E t \in DOMAIN tickets :
        Do(serial, w, "attend", tickets[t].svc, tickets[t].st, AttendTicketWS(tickets, rows, t))

CancelTicket(w, serial) ==
    \E t \in DOMAIN tickets :
        Do(serial, w, "cancel", tickets[t].svc, tickets[t].st, CancelTicketWS(tickets, rows, t))

DailyCleanup(w, serial) ==
    \E r \in {DailyCleanupRequest([cancelPendingTickets |-> c, resetQueueStates |-> q])
                 : c \in OptionValues, q \in OptionValues} :
        Do(serial, w, "cleanup", 0, NoStation,
           DailyCleanupWS(tickets, rows, r.cancel_pending_tickets, r.reset_queue_states))

InitializeQueues(w, serial) ==
    Do(serial, w, "initialize", 0, NoStation, InitializeQueuesWS(tickets, rows))

InitializeAllQueues(w, serial) ==
    Do(serial, w, "initialize-all", 0, NoStation, InitializeAllQueuesWS(tickets, rows))

RefreshAllQueues(w, serial) ==
    Do(serial, w, "refresh-all", 0, NoStation, RefreshAllQueuesWS(tickets, rows))

CheckConsistency(w, serial) ==
    \E fix \in BOOLEAN :
        Do(serial, w, "consistency-check", 0, NoStation, CheckConsistencyWS(tickets, rows, fix))

DbInit ==
    /\ tickets = <<>>
    /\ rows = <<>>
    /\ req = [w \in Workstations |-> NoReq]
    /\ issued = 0
    /\ advanced = NoQueue

\* ------------------------------------------------------------------------
\* Part II.  The HTTP layer of the Angular client
\* ------------------------------------------------------------------------
\* null token
NoToken == 0

\* URLs are sequences of the pieces the endpoint patterns are made of, so
\* that a pattern occurs in a URL string exactly when its pieces occur in
\* the URL's pieces
ApiUrl == <<"/api/v1">>

AuthApiUrl == ApiUrl \o <<"/auth">>

\* AuthService.refreshAccessToken posts to `${this.apiUrl}/refresh`
RefreshUrl == AuthApiUrl \o <<"/refresh">>

\* the service methods that the components call
Methods ==
    {"advanceQueue", "resetQueue", "initializeAllQueues", "refreshAllQueues",
     "checkConsistency", "login", "resetPassword"}

\* the URL each method requests
UrlOf(m) ==
    CASE m = "advanceQueue" -> ApiUrl \o <<"/queue-states", "/advance">>
      [] m = "resetQueue" -> ApiUrl \o <<"/queue-states", "/reset">>
      [] m = "initializeAllQueues" -> ApiUrl \o <<"/queue-states", "/initialize", "-all">>
      [] m = "refreshAllQueues" -> ApiUrl \o <<"/queue-states", "/refresh", "-all">>
      [] m = "checkConsistency" -> ApiUrl \o <<"/queue-states", "/consistency-check">>
      [] m = "login" -> AuthApiUrl \o <<"/login">>
      [] m = "resetPassword" -> AuthApiUrl \o <<"/reset", "-password">>
      [] m = "logout" -> AuthApiUrl \o <<"/logout">>

\* String.prototype.includes
Includes(url, pat) ==
    \E i \in 1..(Len(url) - Len(pat) + 1) : SubSeq(url, i, i + Len(pat) - 1) = pat

\* a list of auth endpoints that leaves out the refresh endpoint
authEndpoints_NoRefresh == {<<"/login">>, <<"/reset", "-password">>}

authEndpoints == {<<"/login">>, <<"/refresh">>, <<"/reset", "-password">>}

isAuthEndpoint(url) == \E endpoint \in authEndpoints : Includes(url, endpoint)

\* the token of the Authorization header that the service method sets
\* itself: QueueService.getAuthHeaders reads localStorage, login and
\* resetPassword send no header
\* logout sends the token of authState
ServiceHeader(m) ==
    IF m \in {"login", "resetPassword"} THEN NoToken
    ELSE IF m = "logout" THEN session.token
    ELSE storage.access_token

\* AuthService.getToken
getToken == IF session.token # NoToken THEN session.token ELSE storage.access_token

\* the refresh token that refreshAccessToken sends
getRefreshToken ==
    IF session.refreshToken # NoToken THEN session.refreshToken
    ELSE storage.refresh_token

\* AuthInterceptor.intercept, request side: the token the request carries
addTokenToRequest(m) ==
    LET token == getToken
    IN  IF token # NoToken /\ ~isAuthEndpoint(UrlOf(m)) THEN token
        ELSE ServiceHeader(m)

\* responses of the server: status, and whether the body has a detail
ErrorStatuses == {401, 403, 404, 500}

\* no error; also an Error that is no HTTP response (status undefined)
NoError == [status |-> 0, detail |-> FALSE]

\* an error handler that looks at the status before the detail
QueueServiceHandleError_StatusFirst(error) ==
    IF error.status = 401
    THEN "No autorizado. Por favor inicie sesion nuevamente."
    ELSE IF error.status = 403
         THEN "No tiene permisos para realizar esta accion."
    ELSE IF error.status = 404 THEN "Recurso no encontrado."
    ELSE IF error.status = 500
         THEN "Error del servidor. Por favor intente mas tarde."
    ELSE IF error.detail THEN "error.error.detail"
    ELSE "Ocurrio un error en el servicio de colas"

\* QueueService.handleError: the message of the Error it throws
QueueServiceHandleError(error) ==
    IF error.detail THEN "error.error.detail"
    ELSE IF error.status = 401
         THEN "No autorizado. Por favor inicie sesion nuevamente."
    ELSE IF error.status = 403
         THEN "No tiene permisos para realizar esta accion."
    ELSE IF error.status = 404 THEN "Recurso no encontrado."
    ELSE IF error.status = 500
         THEN "Error del servidor. Por favor intente mas tarde."
    ELSE "Ocurrio un error en el servicio de colas"

\* AuthService.handleError: the message of the Error it throws
AuthServiceHandleError(error) ==
    IF error.status = 401 THEN "Credenciales invalidas o sesion expirada"
    ELSE IF error.status = 403
         THEN "No tiene permisos para realizar esta accion"
    ELSE IF error.status = 422
         THEN (IF error.detail THEN "error.error.detail" ELSE "Datos invalidos")
    ELSE IF error.detail THEN "error.error.detail"
    ELSE "Error ${error.status}: ${error.message}"

\* what the catchError of each service method hands to its caller
Surface(m, error) ==
    CASE m \in {"advanceQueue", "resetQueue"} ->
            [failed |-> TRUE, msg |-> QueueServiceHandleError(error)]
      [] m \in {"initializeAllQueues", "refreshAllQueues"} ->
            [failed |-> TRUE, msg |-> "error.message"]
      [] m = "checkConsistency" ->
            [failed |-> FALSE, msg |-> "Error checking consistency"]
      [] m \in {"login", "resetPassword"} ->
            [failed |-> TRUE, msg |-> AuthServiceHandleError(error)]
      [] m = "logout" -> [failed |-> TRUE, msg |-> "error"]

\* calls that can be outstanding at the same time
Slots == {1, 2}

\* a service call
\*   phase  : idle, sent, refreshing (its 401 started a token refresh),
\*            waiting (for the refresh another call started), resent,
\*            done, failed
\*   sends  : how often the request was sent
\*   auth   : token of the Authorization header of the last send
\*   first  : status of the first response, status : of the last response
\*   via    : branch of handle401Error the call took ("" = none)
\*   err    : the error that reached the service's catchError
\*   msg    : message of the error the caller received
NoCall ==
    [m |-> "none", phase |-> "idle", sends |-> 0, auth |-> NoToken, first |-> 0,
     status |-> 0, via |-> "", err |-> NoError, msg |-> ""]

\* the error reaches the catchError of the service method
Fail(call, error) ==
    LET s == Surface(call.m, error)
    IN  [call EXCEPT !.phase = IF s.failed THEN "failed" ELSE "done",
                     !.err = error, !.msg = s.msg]

\* next.handle(addTokenToRequest(request, token))
Resend(call, token) ==
    [call EXCEPT !.phase = "resent", !.sends = @ + 1, !.auth = token]

\* null user, null session id, null expiresAt
NoUser == 0

\* expires_in of the login and refresh responses, in minutes
ExpiresIn == {5, 30}

\* the lifetime of the tokens where it plays no role
Lifetime == MaxOf(ExpiresIn)

\* scheduleTokenRefresh refreshes 5 * 60 * 1000 ms before the token expires
RefreshLead == 5

\* the server issues no more than MaxTokens access tokens
MaxTokens == 3

\* routes: the guarded routes of the application, /login, /unauthorized
Routes == {"/app", "/login", "/unauthorized"}

\* no subscription in AuthService.refreshTokenTimer
NoTimer == [state |-> "none", due |-> 0]

\* initial value of AuthService.authState
NoSession ==
    [isAuthenticated |-> FALSE, user |-> NoUser, token |-> NoToken,
     refreshToken |-> NoToken, sessionId |-> NoUser, expiresAt |-> NoUser]

\* localStorage without the auth entries
NoStorage ==
    [access_token |-> NoToken, refresh_token |-> NoToken, user_info |-> NoUser,
     token_expires_at |-> NoUser, session_id |-> NoUser]

\* AuthService.scheduleTokenRefresh: the subscription it leaves in
\* refreshTokenTimer when the token expires in expiresIn minutes (0: no
\* expiresAt)
scheduleTokenRefresh(expiresIn) ==
    LET refreshIn == MaxOf({0, expiresIn - RefreshLead})
    IN  IF expiresIn # NoUser /\ refreshIn > 0
        THEN [state |-> "pending", due |-> refreshIn]
        ELSE NoTimer

\* AuthService.handleLoginResponse
handleLoginResponse(token, expiresIn) ==
    /\ session' = [isAuthenticated |-> TRUE, user |-> 1, token |-> token,
                   refreshToken |-> token, sessionId |-> 1, expiresAt |-> expiresIn]
    /\ storage' = [access_token |-> token, refresh_token |-> token, user_info |-> 1,
                   token_expires_at |-> expiresIn, session_id |-> 1]
    /\ refreshTokenTimer' = scheduleTokenRefresh(expiresIn)

\* AuthService.handleRefreshResponse: the state is the current state with
\* the new tokens
handleRefreshResponse(token, expiresIn) ==
    /\ session' = [session EXCEPT !.token = token, !.refreshToken = token,
                                  !.expiresAt = expiresIn]
    /\ storage' = [storage EXCEPT !.access_token = token, !.refresh_token = token,
                                  !.token_expires_at = expiresIn]
    /\ refreshTokenTimer' = scheduleTokenRefresh(expiresIn)

\* a clearAuthState that leaves localStorage as it is
clearAuthState_KeepsStorage ==
    /\ session' = NoSession
    /\ UNCHANGED storage
    /\ refreshTokenTimer' = NoTimer

\* AuthService.clearAuthState
clearAuthState ==
    /\ session' = NoSession
    /\ storage' = NoStorage
    /\ refreshTokenTimer' = NoTimer

\* slots whose call is over, or that held no call yet
FreeSlots ==
    {c \in Slots : calls[c].phase \in {"idle", "done", "failed", "cancelled"}}

\* a component calls a service method; the request passes intercept.
\* logout cancels the refresh timer before it sends its request
Request(c, m) ==
    /\ made < MaxCalls
    /\ FreeSlots # {}
    /\ c = MinOf(FreeSlots)
    /\ made' = made + 1
    /\ calls' = [calls EXCEPT ![c] =
                    [NoCall EXCEPT !.m = m, !.phase = "sent", !.sends = 1,
                                   !.auth = addTokenToRequest(m)]]
    /\ refreshTokenTimer' = IF m = "logout" THEN NoTimer ELSE refreshTokenTimer
    /\ UNCHANGED <<session, minted, isRefreshing, refreshTokenSubject, storage,
                   boot, route, dbVars>>

\* the server answers 200; login stores the tokens of the response
\* (handleLoginResponse) and LoginComponent navigates to the return URL;
\* logout clears the session and navigates to /login
RespondOk(c, expiresIn) ==
    /\ calls[c].phase \in {"sent", "resent"}
    /\ calls[c].m = "login" \/ expiresIn = Lifetime
    /\ calls' = [calls EXCEPT ![c] =
                    [@ EXCEPT !.phase = "done", !.status = 200,
                              !.first = IF @ = 0 THEN 200 ELSE @]]
    /\ IF calls[c].m = "login"
       THEN /\ minted < MaxTokens
            /\ minted' = minted + 1
            /\ handleLoginResponse(minted + 1, expiresIn)
            /\ route' = "/app"
       ELSE IF calls[c].m = "logout"
       THEN /\ clearAuthState
            /\ route' = "/login"
            /\ UNCHANGED minted
       ELSE UNCHANGED <<session, minted, storage, refreshTokenTimer, route>>
    /\ UNCHANGED <<isRefreshing, refreshTokenSubject, made, boot, dbVars>>

\* the server answers with an error status: catchError of intercept, and
\* handle401Error for a 401 of a request that isAuthEndpoint does not match
RespondError(c, status, detail) ==
    LET error == [status |-> status, detail |-> detail]
        call == [calls[c] EXCEPT !.status = status,
                                 !.first = IF @ = 0 THEN status ELSE @]
        handled == calls[c].phase = "sent" /\ status = 401
                   /\ ~isAuthEndpoint(UrlOf(call.m))
        \* refreshAccessToken throws at once without refresh token
        thrown == handled /\ ~isRefreshing /\ getRefreshToken = NoToken
        \* the error passes the catchError of handle401Error, which calls
        \* logout(): nobody subscribes to its observable, only its
        \* cancelTokenRefresh runs
        caught == thrown \/ (calls[c].phase = "resent" /\ call.via = "refresh")
        \* the error reaches the catchError of the service method
        surfaced == ~handled \/ thrown
    IN
    /\ calls[c].phase \in {"sent", "resent"}
    /\ IF handled
       THEN IF ~isRefreshing
            THEN IF thrown
                 THEN /\ isRefreshing' = FALSE
                      /\ refreshTokenSubject' = NoToken
                      /\ calls' = [calls EXCEPT ![c] =
                                      Fail([call EXCEPT !.via = "refresh"], NoError)]
                 ELSE /\ isRefreshing' = TRUE
                      /\ refreshTokenSubject' = NoToken
                      /\ calls' = [calls EXCEPT ![c] =
                                      [call EXCEPT !.via = "refresh",
                                                   !.phase = "refreshing"]]
            ELSE \* filter(token => token !== null), take(1)
                 /\ UNCHANGED <<isRefreshing, refreshTokenSubject>>
                 /\ calls' = [calls EXCEPT ![c] =
                                 IF refreshTokenSubject # NoToken
                                 THEN Resend([call EXCEPT !.via = "wait"],
                                             refreshTokenSubject)
                                 ELSE [call EXCEPT !.via = "wait",
                                                   !.phase = "waiting"]]
       ELSE \* the error of a re-sent request passes the catchError of
            \* handle401Error when the call had started the refresh
            /\ isRefreshing' = IF call.via = "refresh" THEN FALSE ELSE isRefreshing
            /\ UNCHANGED refreshTokenSubject
            /\ calls' = [calls EXCEPT ![c] = Fail(call, error)]
    /\ IF surfaced /\ call.m = "logout"
       THEN \* catchError of logout
            /\ clearAuthState
            /\ route' = "/login"
       ELSE /\ refreshTokenTimer' = IF caught THEN NoTimer ELSE refreshTokenTimer
            /\ route' = IF calls[c].phase = "sent" /\ status = 403
                        THEN "/unauthorized" ELSE route
            /\ UNCHANGED <<session, storage>>
    /\ UNCHANGED <<minted, made, boot, dbVars>>

\* the refresh request succeeds: handleRefreshResponse stores the tokens,
\* the switchMap of handle401Error publishes the token and re-sends the
\* request, and so do the calls waiting on refreshTokenSubject
RefreshOk(c, expiresIn) ==
    LET token == minted + 1
    IN
    /\ calls[c].phase = "refreshing"
    /\ minted < MaxTokens
    /\ minted' = token
    /\ handleRefreshResponse(token, expiresIn)
    /\ isRefreshing' = FALSE
    /\ refreshTokenSubject' = token
    /\ calls' = [d \in DOMAIN calls |->
                    IF d = c \/ calls[d].phase = "waiting"
                    THEN Resend(calls[d], token) ELSE calls[d]]
    /\ UNCHANGED <<made, boot, route, dbVars>>

\* the refresh request fails: intercept passes the error on (the refresh
\* URL is an auth endpoint), refreshAccessToken clears the session and
\* navigates to /login, the catchError of handle401Error resets the flag
\* and the call fails with the error of the refresh
RefreshError(c, status, detail) ==
    /\ calls[c].phase = "refreshing"
    /\ IF status = 401 /\ ~isAuthEndpoint(RefreshUrl)
       THEN /\ calls' = [calls EXCEPT ![c] = [@ EXCEPT !.phase = "waiting"]]
            /\ UNCHANGED <<session, storage, refreshTokenTimer, route, isRefreshing>>
       ELSE /\ calls' = [calls EXCEPT ![c] =
                            Fail(@, [status |-> status, detail |-> detail])]
            /\ clearAuthState
            /\ route' = "/login"
            /\ isRefreshing' = FALSE
    /\ UNCHANGED <<minted, refreshTokenSubject, made, boot, dbVars>>

\* the calls that QueueManagementComponent pipes through
\* takeUntil(this.destroy$)
Cancellable ==
    {"advanceQueue", "resetQueue", "initializeAllQueues", "refreshAllQueues"}

\* ngOnDestroy: destroy$ emits and the subscription of the call ends; the
\* request in flight (also the refresh request inside handle401Error) is
\* aborted, and no operator of the chain runs any more
Cancel(c) ==
    /\ calls[c].phase \in {"sent", "refreshing", "waiting", "resent"}
    /\ calls[c].m \in Cancellable
    /\ calls' = [calls EXCEPT ![c] = [@ EXCEPT !.phase = "cancelled"]]
    /\ UNCHANGED <<session, minted, isRefreshing, refreshTokenSubject, made,
                   storage, refreshTokenTimer, boot, route, dbVars>>

\* the timer of scheduleTokenRefresh fires: switchMap subscribes to
\* refreshAccessToken, which throws at once without refresh token
TimerFires ==
    /\ refreshTokenTimer.state = "pending"
    /\ IF getRefreshToken = NoToken
       THEN /\ clearAuthState
            /\ route' = "/login"
       ELSE /\ refreshTokenTimer' = [refreshTokenTimer EXCEPT !.state = "refreshing"]
            /\ UNCHANGED <<session, storage, route>>
    /\ UNCHANGED <<minted, isRefreshing, refreshTokenSubject, calls, made, boot,
                   dbVars>>

\* the refresh request of the timer succeeds
TimerRefreshOk(expiresIn) ==
    /\ refreshTokenTimer.state = "refreshing"
    /\ minted < MaxTokens
    /\ minted' = minted + 1
    /\ handleRefreshResponse(minted + 1, expiresIn)
    /\ UNCHANGED <<isRefreshing, refreshTokenSubject, calls, made, boot, route,
                   dbVars>>

\* the refresh request of the timer fails: catchError of refreshAccessToken,
\* then the error handler of the timer's subscription
TimerRefreshError ==
    /\ refreshTokenTimer.state = "refreshing"
    /\ clearAuthState
    /\ route' = "/login"
    /\ UNCHANGED <<minted, isRefreshing, refreshTokenSubject, calls, made, boot,
                   dbVars>>

\* AuthGuard.canActivate for the guarded routes
canActivate(url, isAuthenticated) ==
    IF url = "/app" /\ ~isAuthenticated THEN "/login" ELSE url

\* the page is loaded at url: the services are constructed, requests that
\* were in flight are gone, initializeAuthState reads localStorage; expired
\* tells whether the stored token has expired, remaining the minutes it is
\* still valid for otherwise
Startup(url, expired, remaining) ==
    LET stored == storage.access_token # NoToken /\ storage.user_info # NoUser
        valid == stored /\ ~expired
        refresh == stored /\ expired /\ storage.refresh_token # NoToken
    IN
    /\ IF valid THEN remaining <= storage.token_expires_at
       ELSE remaining = Lifetime /\ (expired \/ ~stored)
    /\ isRefreshing' = FALSE
    /\ refreshTokenSubject' = NoToken
    /\ calls' = [c \in Slots |-> NoCall]
    /\ boot' = refresh
    /\ IF valid
       THEN /\ session' = [isAuthenticated |-> TRUE, user |-> storage.user_info,
                           token |-> storage.access_token,
                           refreshToken |-> storage.refresh_token,
                           sessionId |-> storage.session_id,
                           expiresAt |-> remaining]
            /\ refreshTokenTimer' = scheduleTokenRefresh(remaining)
            /\ UNCHANGED storage
       ELSE IF stored /\ ~refresh
       THEN clearAuthState
       ELSE /\ session' = NoSession
            /\ refreshTokenTimer' = NoTimer
            /\ UNCHANGED storage
    /\ route' = canActivate(url, valid)
    /\ UNCHANGED <<minted, made, dbVars>>

\* the refresh request of initializeAuthState succeeds
BootRefreshOk(expiresIn) ==
    /\ boot
    /\ boot' = FALSE
    /\ minted < MaxTokens
    /\ minted' = minted + 1
    /\ handleRefreshResponse(minted + 1, expiresIn)
    /\ UNCHANGED <<isRefreshing, refreshTokenSubject, calls, made, route, dbVars>>

\* the refresh request of initializeAuthState fails: catchError of
\* refreshAccessToken, then the error handler of the subscription
BootRefreshError ==
    /\ boot
    /\ boot' = FALSE
    /\ clearAuthState
    /\ route' = "/login"
    /\ UNCHANGED <<minted, isRefreshing, refreshTokenSubject, calls, made, dbVars>>

\* the user follows a link: AuthGuard decides about the guarded routes
Navigate(url) ==
    /\ route # canActivate(url, session.isAuthenticated)
    /\ route' = canActivate(url, session.isAuthenticated)
    /\ UNCHANGED <<session, minted, isRefreshing, refreshTokenSubject, calls, made,
                   storage, refreshTokenTimer, boot, dbVars>>

\* a session is open (tokens 1) and its refresh scheduled, no call was made
HttpInit ==
    /\ session = [isAuthenticated |-> TRUE, user |-> 1, token |-> 1,
                  refreshToken |-> 1, sessionId |-> 1, expiresAt |-> 30]
    /\ storage = [access_token |-> 1, refresh_token |-> 1, user_info |-> 1,
                  token_expires_at |-> 30, session_id |-> 1]
    /\ refreshTokenTimer = scheduleTokenRefresh(30)
    /\ boot = FALSE
    /\ route = "/app"
    /\ minted = 1
    /\ isRefreshing = FALSE
    /\ refreshTokenSubject = NoToken
    /\ calls = [c \in Slots |-> NoCall]
    /\ made = 0

\* ------------------------------------------------------------------------
\* Specifications
\* ------------------------------------------------------------------------
vars == <<dbVars, httpVars>>

Init == DbInit /\ HttpInit

NextHttp ==
    \E c \in Slots :
        \/ \E m \in Methods : Request(c, m)
        \/ \E expiresIn \in {Lifetime} : RespondOk(c, expiresIn)
        \/ \E status \in ErrorStatuses, detail \in BOOLEAN :
               RespondError(c, status, detail)
        \/ \E expiresIn \in {Lifetime} : RefreshOk(c, expiresIn)
        \/ \E status \in ErrorStatuses, detail \in BOOLEAN :
               RefreshError(c, status, detail)

\* the HTTP layer alone
SpecHttp == Init /\ [][NextHttp]_vars

\* every request that is in flight is answered, with a response or with an
\* error: the browser ends each XMLHttpRequest with load, error or timeout
ServerAnswers(c) ==
    \/ \E expiresIn \in {Lifetime} : RespondOk(c, expiresIn)
    \/ \E status \in ErrorStatuses, detail \in BOOLEAN :
           RespondError(c, status, detail)
    \/ \E expiresIn \in {Lifetime} : RefreshOk(c, expiresIn)
    \/ \E status \in ErrorStatuses, detail \in BOOLEAN :
           RefreshError(c, status, detail)

FairHttp == \A c \in Slots : WF_vars(ServerAnswers(c))

SpecHttpFair == Init /\ [][NextHttp]_vars /\ FairHttp

\* the calls of QueueManagementComponent, which may be destroyed while they
\* are in flight
DestroyMethods == {"advanceQueue", "refreshAllQueues"}

NextDestroy ==
    \E c \in Slots :
        \/ \E m \in DestroyMethods : Request(c, m)
        \/ \E expiresIn \in {Lifetime} : RespondOk(c, expiresIn)
        \/ \E status \in ErrorStatuses : RespondError(c, status, FALSE)
        \/ \E expiresIn \in {Lifetime} : RefreshOk(c, expiresIn)
        \/ \E status \in ErrorStatuses : RefreshError(c, status, FALSE)
        \/ Cancel(c)

SpecDestroy == Init /\ [][NextDestroy]_vars

\* the calls of a user's session: a call of a guarded component, login
\* from LoginComponent, logout from the header or UnauthorizedComponent
SessionMethods == {"advanceQueue", "login", "logout"}

\* calls made in a session
MaxSessionCalls == 2

\* the answers of the server that the session distinguishes
SessionErrors == {401, 403}

\* a component can call only while the router shows it
ComponentCall(c, m) ==
    /\ made < MaxSessionCalls
    /\ route = (CASE m = "login" -> "/login"
                  [] m = "logout" /\ route = "/unauthorized" -> "/unauthorized"
                  [] OTHER -> "/app")
    /\ Request(c, m)

NextSession ==
    \/ \E c \in Slots, m \in SessionMethods : ComponentCall(c, m)
    \/ \E c \in Slots, expiresIn \in ExpiresIn : RespondOk(c, expiresIn)
    \/ \E c \in Slots, status \in SessionErrors : RespondError(c, status, FALSE)
    \/ \E c \in Slots, expiresIn \in ExpiresIn : RefreshOk(c, expiresIn)
    \/ \E c \in Slots, status \in SessionErrors : RefreshError(c, status, FALSE)
    \/ TimerFires
    \/ \E expiresIn \in ExpiresIn : TimerRefreshOk(expiresIn)
    \/ TimerRefreshError
    \/ \E expired \in BOOLEAN, remaining \in ExpiresIn :
           Startup("/app", expired, remaining)
    \/ \E expiresIn \in ExpiresIn : BootRefreshOk(expiresIn)
    \/ BootRefreshError
    \/ \E url \in Routes : Navigate(url)

\* the session of one user: calls, token refresh by the interceptor, by the
\* timer and at startup, logout, page loads
SpecSession == Init /\ [][NextSession]_vars

\* requests of several workstations interleave
Next ==
    \E w \in Workstations :
        \/ CreateTicket(w, FALSE)
        \/ AdvanceQueue(w, FALSE)
        \/ ResetQueue(w, FALSE)
        \/ CallNextTicket(w, FALSE)
        \/ AttendTicket(w, FALSE)
        \/ CancelTicket(w, FALSE)
        \/ DailyCleanup(w, FALSE)
        \/ InitializeQueues(w, FALSE)
        \/ InitializeAllQueues(w, FALSE)
        \/ RefreshAllQueues(w, FALSE)
        \/ CheckConsistency(w, FALSE)
        \/ Commit(w)

Spec == Init /\ [][Next]_vars

\* one request at a time; the workstation that sends it plays no role
NextSeq ==
    LET w == MinOf(Workstations) IN
        \/ CreateTicket(w, TRUE)
        \/ AdvanceQueue(w, TRUE)
        \/ ResetQueue(w, TRUE)
        \/ CallNextTicket(w, TRUE)
        \/ AttendTicket(w, TRUE)
        \/ CancelTicket(w, TRUE)
        \/ DailyCleanup(w, TRUE)
        \/ InitializeQueues(w, TRUE)
        \/ InitializeAllQueues(w, TRUE)
        \/ RefreshAllQueues(w, TRUE)
        \/ CheckConsistency(w, TRUE)

SpecSeq == Init /\ [][NextSeq]_vars

\* the interleaved requests of the workstations that attend one running
\* system: every queue has its row, tickets are created, queues advanced
\* and reset
QueuesInit ==
    /\ tickets = <<>>
    /\ rows = MissingRows(<<>>, <<>>, QueueKeys)
    /\ req = [w \in Workstations |-> NoReq]
    /\ issued = 0
    /\ advanced = NoQueue

InitAttend == QueuesInit /\ HttpInit

NextAttend ==
    \E w \in Workstations :
        \/ CreateTicket(w, FALSE)
        \/ AdvanceQueue(w, FALSE)
        \/ ResetQueue(w, FALSE)
        \/ Commit(w)

SpecAttend == InitAttend /\ [][NextAttend]_vars

\* the stations of service 1 whose workstations attend at the same time
AttendingStations == {1, 2}

\* each attending station has its QueueState row, no ticket exists yet
StationsInit ==
    /\ tickets = <<>>
    /\ rows = MissingRows(<<>>, <<>>,
                          {<<ServiceOfStation(st), st>> : st \in AttendingStations})
    /\ req = [w \in Workstations |-> NoReq]
    /\ issued = 0
    /\ advanced = NoQueue

InitStations == StationsInit /\ HttpInit

\* QueueService.advanceQueue(serviceTypeId, stationId) from a station
AdvanceStation(w) ==
    \E st \in AttendingStations :
        LET r == AdvanceQueueRequest(ServiceOfStation(st), st)
        IN  Do(FALSE, w, "advance", r.ServiceTypeId, st,
               AdvanceQueueWS(tickets, rows, r.ServiceTypeId, r.StationId,
                              r.MarkCompleted))

\* WorkstationService.callNextTicket(stationId)
CallNextAtStation(w) ==
    \E st \in AttendingStations :
        Do(FALSE, w, "call", ServiceOfStation(st), st,
           CallNextTicketWS(tickets, rows, st))

\* tickets are created while the workstations of the stations advance
\* their queue or call the next ticket; the requests interleave
NextStations ==
    \E w \in Workstations :
        \/ CreateTicket(w, FALSE)
        \/ AdvanceStation(w)
        \/ CallNextAtStation(w)
        \/ Commit(w)

SpecStations == InitStations /\ [][NextStations]_vars

\* ------------------------------------------------------------------------
\* Claims
\* ------------------------------------------------------------------------
\* a QueueState row agrees with the values derived from the Tickets table
RowConsistent(i) == rows[i] = DerivedRow(tickets, rows[i].svc, rows[i].st)

\* C1: once all interleaved advance, reset and ticket-creation requests have
\* completed, every QueueState row equals the row derived from the tickets
\* of its service/station (current ticket, next ticket, queue length).
C1_ConsistentOnceCompleted ==
    InFlight = {} => \A i \in DOMAIN rows : RowConsistent(i)

\* C2: in every state reached by a sequence of requests (ticket creation,
\* advance, reset, refresh-all, daily cleanup, ...) the QueueLength of each
\* row equals the number of Waiting tickets of the row's service.
C2_QueueLengthIsWaitingCount ==
    \A i \in DOMAIN rows :
        rows[i].len = Cardinality({t \in DOMAIN tickets :
                                     /\ tickets[t].svc = rows[i].svc
                                     /\ tickets[t].status = "Waiting"})

\* a queue holds Waiting tickets next to tickets of its service that left it
C2_Witness ==
    \E i \in DOMAIN rows :
        /\ rows[i].len >= 1
        /\ \E t \in DOMAIN tickets : /\ tickets[t].svc = rows[i].svc
                                      /\ tickets[t].status \in {"Completed", "Cancelled"}
        /\ \E t \in DOMAIN tickets : tickets[t].svc # rows[i].svc

\* C3: in every step each ticket keeps its status or moves forward in the
\* order Waiting, Called, InProgress, final; a final status never changes.
C3_StatusMovesForward ==
    [][\A t \in DOMAIN tickets :
          \/ tickets'[t].status = tickets[t].status
          \/ StatusRank(tickets'[t].status) > StatusRank(tickets[t].status)]_vars

\* tickets have reached each of the statuses that the operations assign
C3_Witness ==
    /\ \E t \in DOMAIN tickets : tickets[t].status = "Completed"
    /\ \E t \in DOMAIN tickets : tickets[t].status = "Cancelled"
    /\ \E t \in DOMAIN tickets : tickets[t].status = "InProgress"

\* C4: an advance makes current the Waiting ticket of the service that was
\* created first: the ticket it selects was Waiting, no Waiting ticket of
\* the service is older, and a ticket is selected whenever one is Waiting.
C4_AdvanceSelectsEarliestWaiting ==
    [][advanced' # NoQueue =>
          LET s == advanced'[1]
              r == FindRow(rows, s, advanced'[2])
              W == {t \in DOMAIN tickets :
                      tickets[t].svc = s /\ tickets[t].status = "Waiting"}
              sel == rows'[r].cur
          IN  r # 0 =>
                /\ W # {} => sel \in W
                /\ W = {} => sel = NoTicket
                /\ \A u \in W : sel <= u
                /\ sel # NoTicket => tickets'[sel].status = "Called"]_vars

\* an advance chose between several Waiting tickets of the service
C4_Witness ==
    /\ advanced # NoQueue
    /\ LET r == FindRow(rows, advanced[1], advanced[2])
       IN  /\ r # 0
           /\ rows[r].cur # NoTicket
           /\ tickets[rows[r].cur].status = "Called"
           /\ \E u \in DOMAIN tickets : /\ u > rows[r].cur
                                         /\ tickets[u].svc = advanced[1]
                                         /\ tickets[u].status = "Waiting"

\* C5: when a queue that has a current ticket is advanced, that ticket is
\* Completed after the advance.
C5_AdvanceCompletesCurrent ==
    [][advanced' # NoQueue =>
          LET r == FindRow(rows, advanced'[1], advanced'[2])
          IN  (r # 0 /\ rows[r].cur # NoTicket) =>
                  tickets'[rows[r].cur].status = "Completed"]_vars

\* the queue advanced last had a current ticket, which is now Completed
C5_Witness ==
    /\ advanced # NoQueue
    /\ \E t \in DOMAIN tickets : /\ tickets[t].svc = advanced[1]
                                  /\ tickets[t].st = advanced[2]
                                  /\ tickets[t].status = "Completed"

\* C6 as claimed: advancing a queue that has no Waiting tickets changes no
\* ticket and no QueueState row.
C6_AdvanceWithoutWaitingIsNoOp ==
    [][(/\ advanced' # NoQueue
        /\ \A t \in DOMAIN tickets :
              ~(tickets[t].svc = advanced'[1] /\ tickets[t].status = "Waiting"))
          => (tickets' = tickets /\ rows' = rows)]_vars

\* C6 as amended: advancing a queue that has no Waiting tickets and no
\* current ticket changes no ticket and no QueueState row.
C6_AdvanceEmptyQueueIsNoOp ==
    [][(/\ advanced' # NoQueue
        /\ \A t \in DOMAIN tickets :
              ~(tickets[t].svc = advanced'[1] /\ tickets[t].status = "Waiting")
        /\ LET r == FindRow(rows, advanced'[1], advanced'[2])
           IN  r # 0 => rows[r].cur = NoTicket)
          => (tickets' = tickets /\ rows' = rows)]_vars

\* the request served last advanced a drained queue: it has a row, tickets
\* of its service exist, none is Waiting and none is current
C6_Witness ==
    /\ advanced # NoQueue
    /\ LET r == FindRow(rows, advanced[1], advanced[2])
       IN  /\ r # 0
           /\ rows[r].cur = NoTicket
           /\ rows[r].len = 0
    /\ \E t \in DOMAIN tickets : tickets[t].svc = advanced[1]
    /\ \A t \in DOMAIN tickets :
          ~(tickets[t].svc = advanced[1] /\ tickets[t].status = "Waiting")

\* the QueueState table after a recomputation endpoint ran on table R
RowsAfter(R, ws) == CommitRows(R, ws, NoTicket)

C8_OneRowPerQueue ==
    \A i \in DOMAIN rows, j \in DOMAIN rows :
        (rows[i].svc = rows[j].svc /\ rows[i].st = rows[j].st) => i = j

\* C9: a request that is not a login, token-refresh or reset-password
\* request and whose first response is 401 is taken up by handle401Error,
\* which refreshes the token (or waits for the refresh under way) in order
\* to re-send it; the 401 is not passed on to the caller.
C9_Retry401UnlessSessionRequest ==
    \A c \in DOMAIN calls :
        (/\ calls[c].m \in Methods \ {"login", "resetPassword"}
         /\ calls[c].first = 401)
            => calls[c].via # ""

\* C10 as claimed: a request that ended with status 401, 403, 404 or 500
\* gives its caller an error with the fixed message of that status.
C10_FixedMessagePerStatus ==
    \A c \in DOMAIN calls :
        (calls[c].phase \in {"done", "failed"} /\ calls[c].status \in ErrorStatuses)
            => /\ calls[c].phase = "failed"
               /\ calls[c].msg =
                     CASE calls[c].status = 401 ->
                             "No autorizado. Por favor inicie sesion nuevamente."
                       [] calls[c].status = 403 ->
                             "No tiene permisos para realizar esta accion."
                       [] calls[c].status = 404 -> "Recurso no encontrado."
                       [] calls[c].status = 500 ->
                             "Error del servidor. Por favor intente mas tarde."

\* C10 as amended: a failed advance or reset request gives its caller an
\* error whose message is the detail of the error body when the body has
\* one, and otherwise the fixed message of the status (401, 403, 404, 500)
\* of the error that reached QueueService.handleError.
C10_QueueServiceMessage ==
    \A c \in DOMAIN calls :
        (calls[c].phase = "failed" /\ calls[c].m \in {"advanceQueue", "resetQueue"})
            => /\ calls[c].err.detail => calls[c].msg = "error.error.detail"
               /\ ~calls[c].err.detail =>
                     /\ calls[c].err.status = 401 => calls[c].msg =
                            "No autorizado. Por favor inicie sesion nuevamente."
                     /\ calls[c].err.status = 403 => calls[c].msg =
                            "No tiene permisos para realizar esta accion."
                     /\ calls[c].err.status = 404 =>
                            calls[c].msg = "Recurso no encontrado."
                     /\ calls[c].err.status = 500 => calls[c].msg =
                            "Error del servidor. Por favor intente mas tarde."

\* one advance or reset failed with a 404 that has no detail, another with
\* a 500 whose body has a detail
C10_Witness ==
    \E c \in DOMAIN calls, d \in DOMAIN calls :
        /\ calls[c].phase = "failed" /\ calls[d].phase = "failed"
        /\ calls[c].m = "advanceQueue" /\ calls[d].m \in {"advanceQueue", "resetQueue"}
        /\ calls[c].err = [status |-> 404, detail |-> FALSE]
        /\ calls[d].err = [status |-> 500, detail |-> TRUE]

\* C11: no ticket is the current ticket of two queues (stations) at the
\* same time, also when workstations advance or call next concurrently.
C11_TicketAtOneStation ==
    \A i \in DOMAIN rows, j \in DOMAIN rows :
        (rows[i].cur # NoTicket /\ rows[i].cur = rows[j].cur) => i = j

\* C12: at most one refresh request started by the interceptor is in
\* flight at any time.
C12_SingleRefreshInFlight ==
    Cardinality({c \in Slots : calls[c].phase = "refreshing"}) <= 1

\* C13: a request that received a 401 while a refresh was in flight, and
\* waits for that refresh, eventually ends with a response or an error,
\* whether the refresh succeeds or fails.
C13_WaitingRequestCompletes ==
    \A c \in Slots :
        calls[c].phase = "waiting" ~> calls[c].phase \in {"done", "failed"}

\* C14: the isRefreshing flag is true only while a refresh request is in
\* flight; once the refresh succeeded or failed, or the request that
\* started it was cancelled, the flag is false.
C14_RefreshingOnlyWhileInFlight ==
    isRefreshing => \E c \in Slots : calls[c].phase = "refreshing"

\* C15: 401 handling terminates.  No request is sent more than twice (once
\* originally, once after the refresh); a request that was re-sent is not
\* handled again, whatever the answer; and when the refresh request is
\* answered, also with 401, the call that started it is re-sent or fails:
\* it neither waits nor starts another refresh.
C15_Handling401Terminates ==
    [][\A c \in Slots :
          /\ calls'[c].sends <= 2
          /\ calls[c].phase = "resent"
                => calls'[c].phase \in {"resent", "done", "failed"}
          /\ calls[c].phase = "refreshing"
                => calls'[c].phase \in {"refreshing", "resent", "done", "failed"}]_vars

\* the server answered 401 to everything: one call was re-sent after the
\* refresh and failed with the 401 of the second send, another call failed
\* with the 401 of its refresh request
C15_Witness ==
    \E c, d \in Slots :
        /\ calls[c].sends = 2 /\ calls[c].phase = "failed"
        /\ calls[c].first = 401 /\ calls[c].status = 401
        /\ calls[d].via = "refresh" /\ calls[d].sends = 1
        /\ calls[d].phase = "failed" /\ calls[d].err.status = 401

\* the refresh request of the interceptor, of the timer or of startup is
\* answered with an error
RefreshRequestFails ==
    \/ \E c \in Slots, status \in SessionErrors : RefreshError(c, status, FALSE)
    \/ TimerRefreshError
    \/ BootRefreshError

\* refreshAccessToken finds no refresh token and throws, in the interceptor
\* or in the timer
RefreshThrows ==
    /\ session.refreshToken = NoToken /\ storage.refresh_token = NoToken
    /\ \/ TimerFires
       \/ \E c \in Slots, status \in SessionErrors :
             /\ RespondError(c, status, FALSE)
             /\ calls'[c].via = "refresh"

C17_LogoutStaysCleared ==
    [][(/\ \E c \in Slots : calls[c].m = "logout" /\ calls[c].phase \in {"done", "failed"}
        /\ session.token = NoToken /\ storage.access_token = NoToken
        /\ refreshTokenTimer = NoTimer
        /\ ~\E c \in Slots : calls[c].m = "login" /\ calls'[c].phase = "done"
                             /\ calls[c].phase # "done")
          => /\ session'.token = NoToken /\ session'.refreshToken = NoToken
             /\ storage'.access_token = NoToken /\ storage'.refresh_token = NoToken
             /\ refreshTokenTimer' = NoTimer]_vars

\* C18: when the application started with a stored user and an expired
\* access token, and the refresh that initializeAuthState started
\* succeeds, the session is authenticated with the stored user
\* information, so AuthGuard lets the guarded routes through.
C18_StartupRefreshAuthenticates ==
    [][(boot /\ ~boot' /\ minted' = minted + 1)
          => /\ session'.isAuthenticated
             /\ session'.user = storage.user_info
             /\ canActivate("/app", session'.isAuthenticated) = "/app"]_vars

\* C19: in a session that is open (authenticated, with an access token,
\* no logout under way) an automatic refresh is pending or running, so the
\* access token is refreshed before it expires.
C19_RefreshAlwaysPending ==
    (/\ session.isAuthenticated
     /\ session.token # NoToken
     /\ ~\E c \in Slots : calls[c].m = "logout" /\ calls[c].phase \notin {"done", "failed"})
        => refreshTokenTimer.state \in {"pending", "refreshing"}

====
